---- MODULE Spec2Model ----
(***************************************************************************)
(* Model of the Red Faction 2 PEG texture tools:                           *)
(*   scripts/python/utils.py        palette swizzle, channel-order swap    *)
(*   scripts/python/process_peg.py  archive reader/writer, extract, pack   *)
(*   scripts/python/unpack_peg.py   the older stand-alone unpacker         *)
(*   scripts/python/tga.py          the TGA reader/writer                  *)
(*   plugins/noesis/fmt_RF2_peg.py  the viewer plugin's palette swizzle    *)
(*                                                                         *)
(* Byte buffers are sequences of 0..255.  Offsets are 0-based as in the    *)
(* Python source; the element at offset k of a buffer s is s[k+1].         *)
(* A Python call that may raise is an operator returning a result record   *)
(* [ok, val, err]: ok = FALSE stands for the raised exception.             *)
(***************************************************************************)
EXTENDS Integers, Sequences, FiniteSets, TLC

VARIABLES
    xfn,        \* transform under test: "swizzle", "order32", "order16"
    xin,        \* its input buffer
    xout1,      \* result of one application
    xout2,      \* result of applying it again to xout1's buffer
    xpc,        \* "start" | "once" | "twice"
    entries,    \* PEGImageArchive.entries of the archive being built
    image_data, \* PEGImageArchive.image_data, one payload per entry
    file,       \* the bytes of the .peg file at file_path
    rd,         \* the PEGImageArchive that read() filled from the file
    apc,        \* "filling" | "written" | "read"
    tool,       \* the script run: "process_peg" or "unpack_peg"
    idx,        \* entries of rd the extraction loop has consumed
    delivered,  \* images the decoder handed to its caller: [idx, image]
    errors,     \* "[ERROR]" lines printed: [idx, err, cause]
    out_files,  \* .tga files saved: [idx, frame, bytes]
    failed,     \* _extract_archive's failed / main's failed_to_export
    total_failed, \* unpack's total_failed
    packed,     \* files of out_files _pack_directory has listed
    epc         \* "start" | "extracting" | "extracted" | "done" | "packed"

xformVars == <<xfn, xin, xout1, xout2, xpc>>
archiveVars == <<entries, image_data, file, rd, apc>>
extractVars == <<tool, idx, delivered, errors, out_files, failed, total_failed,
                 packed, epc>>
vars == <<xfn, xin, xout1, xout2, xpc, entries, image_data, file, rd, apc,
          tool, idx, delivered, errors, out_files, failed, total_failed, packed, epc>>

----------------------------------------------------------------------------
(* Results of calls that may raise.                                        *)

Ok(v) == [ok |-> TRUE, val |-> v, err |-> "none"]
Err(e) == [ok |-> FALSE, val |-> <<>>, err |-> e]
NoResult == [ok |-> FALSE, val |-> <<>>, err |-> "not run"]

Min(a, b) == IF a <= b THEN a ELSE b

(* Python's s[lo:hi] for 0 <= lo <= hi: both ends are clamped to len(s).   *)
PySlice(s, lo, hi) == SubSeq(s, Min(lo, Len(s)) + 1, Min(hi, Len(s)))

(* Python's bytearray slice assignment s[lo:hi] = v: the clamped slice is  *)
(* replaced by v, whatever v's length, so the buffer may shrink or grow.   *)
PySliceAssign(s, lo, hi, v) ==
    SubSeq(s, 1, Min(lo, Len(s))) \o v \o SubSeq(s, Min(hi, Len(s)) + 1, Len(s))

Zeros(n) == [i \in 1..n |-> 0]

(* TRUE of every buffer.  TLC evaluates an operator's arguments on demand; *)
(* a loop tests this on the buffer of each pass so that the buffer is      *)
(* computed pass by pass and not as one nested expression at the end.      *)
Evaluated(s) == Len(s) >= 0

PALETTE_ENTRIES == 256  \* colours of a palette: f.read(256 * palette_depth // 8)

----------------------------------------------------------------------------
(* utils.py: unswizzle_8bit_palette                                        *)

(* Mutant: the quarter boundaries of a 1024-byte palette, hard-coded.      *)
sub_sizes_hardcoded(block_size, i) == 128 - (i * 32)

(* sub_sizes[i] = block_size - i * (block_size // 4), i = 0..3             *)
sub_sizes(block_size, i) == block_size - (i * (block_size \div 4))

(* Mutant: the last two source positions exchanged, which turns the swap   *)
(* of quarters 1 and 2 into a rotation of quarters 1, 2 and 3.             *)
src_positions_rotated(block_start, block_size, k) ==
    CASE k = 0 -> block_start
      [] k = 1 -> block_start + (block_size - (2 * (block_size \div 4)))
      [] k = 2 -> block_start + (block_size - (1 * (block_size \div 4)))
      [] k = 3 -> block_start + (block_size - (3 * (block_size \div 4)))

(* src_positions / dest_positions of one block, k = 0..3 in zip order      *)
src_positions(block_start, block_size, k) ==
    CASE k = 0 -> block_start
      [] k = 1 -> block_start + sub_sizes(block_size, 2)
      [] k = 2 -> block_start + sub_sizes(block_size, 3)
      [] k = 3 -> block_start + sub_sizes(block_size, 1)

(* Mutant: the destinations equal to the sources, so no quarter moves.     *)
dest_positions_unswapped(block_start, block_size, k) ==
    src_positions(block_start, block_size, k)

dest_positions(block_start, block_size, k) ==
    CASE k = 0 -> block_start
      [] k = 1 -> block_start + sub_sizes(block_size, 3)
      [] k = 2 -> block_start + sub_sizes(block_size, 2)
      [] k = 3 -> block_start + sub_sizes(block_size, 1)

(* The inner zip loop from its k-th pair on:                               *)
(*   result[dest:dest + sub_sizes[3]] = palette[src:src + sub_sizes[3]]    *)
RECURSIVE CopySegments(_, _, _, _, _)
CopySegments(palette_bytes, result, block_start, block_size, k) ==
    IF k > 3 THEN result
    ELSE LET seg == sub_sizes(block_size, 3)
             src == src_positions(block_start, block_size, k)
             dest == dest_positions(block_start, block_size, k)
         IN  CopySegments(palette_bytes,
                          PySliceAssign(result, dest, dest + seg,
                                        PySlice(palette_bytes, src, src + seg)),
                          block_start, block_size, k + 1)

(* The outer loop: for block_start in range(0, len, sub_sizes[0])          *)
RECURSIVE SwizzleBlocks(_, _, _, _)
SwizzleBlocks(palette_bytes, result, block_start, block_size) ==
    IF block_start >= Len(palette_bytes) THEN result
    ELSE LET next == CopySegments(palette_bytes, result, block_start, block_size, 0)
         IN  IF Evaluated(next)
             THEN SwizzleBlocks(palette_bytes, next,
                                block_start + sub_sizes(block_size, 0), block_size)
             ELSE next

(* range() with a step of zero raises ValueError before the first pass.    *)
unswizzle_8bit_palette(palette_bytes) ==
    LET block_size == Len(palette_bytes) \div 8
    IN  IF sub_sizes(block_size, 0) = 0
        THEN Err("ValueError: range() arg 3 must not be zero")
        ELSE Ok(SwizzleBlocks(palette_bytes, Zeros(Len(palette_bytes)), 0, block_size))

----------------------------------------------------------------------------
(* utils.py: change_pixel_order                                            *)

(* struct.unpack('<H', b) and struct.pack('<H', v)                         *)
UnpackH(b) == b[1] + 256 * b[2]
PackH(v) == <<v % 256, v \div 256>>

(* Mutant: the fields repacked in rotated order (g, b, r for r, g, b).     *)
SwapFields16_rotated(pixel) ==
    LET a == (pixel \div 32768) % 2
        r == (pixel \div 1024) % 32
        g == (pixel \div 32) % 32
        b == pixel % 32
    IN  (a * 32768) + (g * 1024) + (b * 32) + r

(* Mutant: the red field cut as in a 5-6-5 pixel, (pixel & 0xF800) >> 11.  *)
SwapFields16_565(pixel) ==
    LET a == (pixel \div 32768) % 2
        r == (pixel \div 2048) % 32
        g == (pixel \div 32) % 32
        b == pixel % 32
    IN  (a * 32768) + (b * 1024) + (g * 32) + r

(* (a << 15) | (b << 10) | (g << 5) | r with a, r, g, b cut out of pixel   *)
SwapFields16(pixel) ==
    LET a == (pixel \div 32768) % 2
        r == (pixel \div 1024) % 32
        g == (pixel \div 32) % 32
        b == pixel % 32
    IN  (a * 32768) + (b * 1024) + (g * 32) + r

change_pixel_order(data, depth) ==
    LET n == Len(data) IN
    IF depth = 32 THEN
        \* result[i], result[i + 2] = data[i + 2], data[i] for i = 0, 4, 8, ...
        IF \E i \in 0..(n - 1) : i % 4 = 0 /\ i + 2 >= n
        THEN Err("IndexError: index out of range")
        ELSE Ok([k \in 1..n |->
                    IF (k - 1) % 4 = 0 THEN data[k + 2]
                    ELSE IF (k - 1) % 4 = 2 THEN data[k - 2]
                    ELSE data[k]])
    ELSE IF depth = 16 THEN
        \* struct.unpack('<H', data[i:i + 2]) for i = 0, 2, 4, ...
        IF n % 2 # 0
        THEN Err("struct.error: unpack requires a buffer of 2 bytes")
        ELSE Ok([k \in 1..n |->
                    LET i == ((k - 1) \div 2) * 2
                        new_pixel == SwapFields16(UnpackH(PySlice(data, i, i + 2)))
                    IN  PackH(new_pixel)[k - i]])
    ELSE Ok(data)

----------------------------------------------------------------------------
(* Files and struct.                                                       *)

(* f.seek(pos); f.read(n): a read at the end of the file comes back short. *)
FileRead(data, pos, n) == PySlice(data, pos, pos + n)

(* f.seek(pos); f.write(b): bytes in place are overwritten, the file grows *)
(* as needed, and a gap left by a seek past the end reads as zeros.        *)
FileWrite(data, pos, b) ==
    IF Len(b) = 0 THEN data
    ELSE IF pos > Len(data) THEN data \o Zeros(pos - Len(data)) \o b
    ELSE SubSeq(data, 1, pos) \o b \o SubSeq(data, pos + Len(b) + 1, Len(data))

(* struct.pack / struct.unpack of '<B', '<H' is above, '<I' here           *)
PackI(v) == <<v % 256, (v \div 256) % 256, (v \div 65536) % 256, v \div 16777216>>
UnpackI(b) == b[1] + (256 * b[2]) + (65536 * b[3]) + (16777216 * b[4])

RECURSIVE SumLen(_)
SumLen(seqs) == IF seqs = <<>> THEN 0 ELSE Len(Head(seqs)) + SumLen(Tail(seqs))

----------------------------------------------------------------------------
(* process_peg.py: PEGFileEntry, PEGImageArchive                           *)

MAGIC == <<71, 69, 75, 86>>     \* b'GEKV'

PEGFileEntry(width, height, type, subtype, frame_num, u1, anim_delay, mipmaps, u2, name, offset) ==
    [width |-> width, height |-> height, type |-> type, subtype |-> subtype,
     frame_num |-> frame_num, u1 |-> u1, anim_delay |-> anim_delay,
     mipmaps |-> mipmaps, u2 |-> u2, name |-> name, offset |-> offset]

(* Text is a sequence of character codes.  str.encode('ascii',            *)
(* errors='ignore') and bytes.decode('ascii', errors='ignore') both drop   *)
(* the codes above 127.                                                    *)
AsciiIgnore(t) == SelectSeq(t, LAMBDA c : c < 128)

(* bytes.ljust(n, b'\x00') *)
Ljust(b, n) == IF Len(b) >= n THEN b ELSE b \o Zeros(n - Len(b))

(* utils.py: get_cstring *)
get_cstring(data) ==
    LET nulls == {i \in 1..Len(data) : data[i] = 0}
        null_pos == IF nulls = {} THEN -1
                    ELSE (CHOOSE i \in nulls : \A j \in nulls : i <= j) - 1
    IN  IF null_pos # -1 THEN AsciiIgnore(PySlice(data, 0, null_pos))
        ELSE AsciiIgnore(data)

(* struct.pack('<HHBBBBBBH', width, height, type, subtype, u1, frame_num,  *)
(*             anim_delay, mipmaps, u2)                                    *)
PackEntryFields(entry) ==
    PackH(entry.width) \o PackH(entry.height) \o
    <<entry.type, entry.subtype, entry.u1, entry.frame_num, entry.anim_delay,
      entry.mipmaps>> \o PackH(entry.u2)

(* PEGImageArchive._write_header, on the file just opened with 'wb' *)
_write_header(version, ents, datas) ==
    FileWrite(<<>>, 0,
        MAGIC \o PackI(version) \o PackI(Len(ents) * 64) \o PackI(SumLen(datas))
              \o PackI(Len(ents)) \o PackI(0) \o PackI(0) \o PackI(0))

(* PEGImageArchive._write_entries from entry i (0-based) on: returns the   *)
(* file and the entries with their offset fields set; raised tells that    *)
(* self.image_data[i] raised IndexError, after entry i's offset was set    *)
(* and before its record was written.                                      *)
RECURSIVE WriteEntriesFrom(_, _, _, _, _)
WriteEntriesFrom(f, ents, datas, i, current_offset) ==
    IF i >= Len(ents) THEN [file |-> f, entries |-> ents, raised |-> FALSE]
    ELSE LET entry == [ents[i + 1] EXCEPT !.offset = current_offset]
             size == Len(datas[i + 1])
             name_bytes == PySlice(AsciiIgnore(entry.name), 0, 47)
             record == PackEntryFields(entry) \o Ljust(name_bytes, 48)
                         \o PackI(entry.offset)
             f1 == FileWrite(f, 28 + (i * 64), record)
         IN  IF i >= Len(datas)
             THEN [file |-> f, entries |-> [ents EXCEPT ![i + 1] = entry],
                   raised |-> TRUE]
             ELSE IF Evaluated(f1)
             THEN WriteEntriesFrom(f1, [ents EXCEPT ![i + 1] = entry], datas,
                                   i + 1, current_offset + size)
             ELSE [file |-> f1, entries |-> ents, raised |-> FALSE]

_write_entries(f, ents, datas) ==
    WriteEntriesFrom(f, ents, datas, 0, 28 + (Len(ents) * 64))

(* PEGImageArchive._write_image_data: one seek, then the payloads in order *)
RECURSIVE WriteDataFrom(_, _, _, _)
WriteDataFrom(f, pos, datas, i) ==
    IF i >= Len(datas) THEN f
    ELSE LET f1 == FileWrite(f, pos, datas[i + 1])
         IN  IF Evaluated(f1)
             THEN WriteDataFrom(f1, pos + Len(datas[i + 1]), datas, i + 1)
             ELSE f1

_write_image_data(f, ents, datas) ==
    WriteDataFrom(f, IF Len(ents) > 0 THEN ents[Len(ents)].offset ELSE 28, datas, 0)

(* PEGFileEntry.from_file at position pos: the entry and the position      *)
(* after it, or the struct.error of a short read.                          *)
from_file(f, pos) ==
    LET fields == FileRead(f, pos, 12)
        name_field == FileRead(f, pos + Len(fields), 48)
        off_field == FileRead(f, pos + Len(fields) + Len(name_field), 4)
    IN  IF Len(fields) < 12 THEN Err("struct.error: unpack requires a buffer of 12 bytes")
        ELSE IF Len(off_field) < 4 THEN Err("struct.error: unpack requires a buffer of 4 bytes")
        ELSE Ok([entry |->
                    PEGFileEntry(UnpackH(SubSeq(fields, 1, 2)), UnpackH(SubSeq(fields, 3, 4)),
                                 fields[5], fields[6], fields[8], fields[7], fields[9],
                                 fields[10], UnpackH(SubSeq(fields, 11, 12)),
                                 get_cstring(name_field), UnpackI(off_field)),
                 pos |-> pos + 64])

(* PEGImageArchive._read_entries: num_images entries from position pos on  *)
RECURSIVE _read_entries(_, _, _, _)
_read_entries(f, pos, num_images, got) ==
    IF num_images = 0 THEN Ok(got)
    ELSE LET e == from_file(f, pos)
         IN  IF ~e.ok THEN e
             ELSE _read_entries(f, e.val.pos, num_images - 1, Append(got, e.val.entry))

(* PEGImageArchive.read = _parse_header then _read_entries, on a new       *)
(* archive object: the object's fields, or the exception raised.           *)
read(f) ==
    LET magic == FileRead(f, 0, 4)
        rest == FileRead(f, 4, 28)
        u(k) == UnpackI(SubSeq(rest, (4 * k) + 1, (4 * k) + 4))
    IN  IF magic # MAGIC THEN Err("ValueError: Invalid PEG file")
        ELSE IF Len(rest) < 28 THEN Err("struct.error: unpack requires a buffer of 28 bytes")
        ELSE LET es == _read_entries(f, 32, u(3), <<>>)
             IN  IF ~es.ok THEN es
                 ELSE Ok([version |-> u(0), entries_data_size |-> u(1),
                          files_data_size |-> u(2), num_images |-> u(3),
                          dummy |-> u(4), frame_num |-> u(5), unk |-> u(6),
                          entries |-> es.val])

----------------------------------------------------------------------------
(* process_peg.py: PEGImageArchive._read_image_data                        *)

(* The ValueError("Failed to decode image ...") that wraps every exception *)
(* raised while decoding; cause is the wrapped exception.                  *)
DecodeFailed(cause) ==
    [ok |-> FALSE, val |-> <<>>, err |-> "ValueError: Failed to decode image",
     cause |-> cause]

UNSUPPORTED == "ValueError: Unsupported texture type"

RF2ImageFileFrame(data, palette) == [data |-> data, palette |-> palette]

RF2ImageFile(name, width, height, depth, palette_depth, frames) ==
    [name |-> name, width |-> width, height |-> height, depth |-> depth,
     palette_depth |-> palette_depth, frames |-> frames]

(* One pass of "for _ in range(entry.frame_num)" at file position pos:     *)
(* the frame and the position after it, or the exception raised.  The      *)
(* palette of a truecolour frame is None, written <<>> (both are falsy).   *)
ReadFrame(f, pos, entry, depth, palette_depth) ==
    IF depth = 8 THEN
        LET raw == FileRead(f, pos, (PALETTE_ENTRIES * palette_depth) \div 8)
            palette_bytes == change_pixel_order(raw, palette_depth)
            palette_data == IF palette_bytes.ok
                            THEN unswizzle_8bit_palette(palette_bytes.val)
                            ELSE palette_bytes
            img == FileRead(f, pos + Len(raw), entry.width * entry.height)
        IN  IF ~palette_data.ok THEN palette_data
            ELSE Ok([frame |-> RF2ImageFileFrame(img, palette_data.val),
                     pos |-> pos + Len(raw) + Len(img)])
    ELSE
        LET raw == FileRead(f, pos, entry.width * entry.height * (depth \div 8))
            img == change_pixel_order(raw, depth)
        IN  IF ~img.ok THEN img
            ELSE Ok([frame |-> RF2ImageFileFrame(img.val, <<>>),
                     pos |-> pos + Len(raw)])

RECURSIVE ReadFrames(_, _, _, _, _, _, _)
ReadFrames(f, pos, entry, depth, palette_depth, left, frames) ==
    IF left = 0 THEN Ok(frames)
    ELSE LET fr == ReadFrame(f, pos, entry, depth, palette_depth)
         IN  IF ~fr.ok THEN fr
             ELSE ReadFrames(f, fr.val.pos, entry, depth, palette_depth, left - 1,
                             Append(frames, fr.val.frame))

_read_image_data(f, entry) ==
    LET palette_depth == IF entry.type = 4 /\ entry.subtype = 1 THEN 16 ELSE 32
        depth == CASE entry.type = 7 -> 32
                   [] entry.type = 4 -> 8
                   [] entry.type = 3 -> 16
                   [] OTHER -> 0
    IN  IF entry.type \notin {7, 4, 3} THEN DecodeFailed(UNSUPPORTED)
        ELSE LET frames == ReadFrames(f, entry.offset, entry, depth, palette_depth,
                                      entry.frame_num, <<>>)
             IN  IF ~frames.ok THEN DecodeFailed(frames.err)
                 ELSE Ok(RF2ImageFile(entry.name, entry.width, entry.height, depth,
                                      palette_depth, frames.val))

----------------------------------------------------------------------------
(* unpack_peg.py: PEGFileEntry.read, PEGImageArchive.read and get_images   *)

UnpackerEntry(width, height, type, subtype, u1, u2, flags, name, offset) ==
    [width |-> width, height |-> height, type |-> type, subtype |-> subtype,
     u1 |-> u1, u2 |-> u2, flags |-> flags, name |-> name, offset |-> offset]

(* PEGFileEntry.read at position pos *)
UnpackerEntryRead(f, pos) ==
    LET fields == FileRead(f, pos, 12)
        name_bytes == FileRead(f, pos + Len(fields), 48)
        off_field == FileRead(f, pos + Len(fields) + Len(name_bytes), 4)
    IN  IF Len(fields) < 12 THEN Err("struct.error: unpack requires a buffer of 12 bytes")
        ELSE IF Len(off_field) < 4 THEN Err("struct.error: unpack requires a buffer of 4 bytes")
        ELSE Ok([entry |->
                    UnpackerEntry(UnpackH(SubSeq(fields, 1, 2)), UnpackH(SubSeq(fields, 3, 4)),
                                  fields[5], fields[6], fields[7], fields[8],
                                  UnpackI(SubSeq(fields, 9, 12)),
                                  get_cstring(name_bytes), UnpackI(off_field)),
                 pos |-> pos + 64])

RECURSIVE read_entries(_, _, _, _)
read_entries(f, pos, num_images, got) ==
    IF num_images = 0 THEN Ok(got)
    ELSE LET e == UnpackerEntryRead(f, pos)
         IN  IF ~e.ok THEN e
             ELSE read_entries(f, e.val.pos, num_images - 1, Append(got, e.val.entry))

(* PEGImageArchive.read = parse_header then read_entries *)
UnpackerRead(f) ==
    LET magic == FileRead(f, 0, 4)
        num == FileRead(f, 16, 4)
    IN  IF magic # MAGIC THEN Err("ValueError: Not a valid PEG file")
        ELSE IF Len(num) < 4 THEN Err("struct.error: unpack requires a buffer of 4 bytes")
        ELSE LET es == read_entries(f, 32, UnpackI(num), <<>>)
             IN  IF ~es.ok THEN es
                 ELSE Ok([num_images |-> UnpackI(num), entries |-> es.val])

(* One pass of the loop of get_images: the tuple it yields, or the         *)
(* exception its "except Exception" prints before it continues.            *)
get_images(f, entry) ==
    LET pos == entry.offset
        yield(depth, palette_depth, img) ==
            Ok([name |-> entry.name, width |-> entry.width, height |-> entry.height,
                depth |-> depth, palette_depth |-> palette_depth,
                image_data |-> img])
    IN  IF entry.type = 7 THEN
            LET img == change_pixel_order(
                                FileRead(f, pos, entry.width * entry.height * 4), 32)
            IN  IF ~img.ok THEN img ELSE yield(32, 32, img.val)
        ELSE IF entry.type = 4 THEN
            IF entry.subtype \notin {1, 2}
            THEN \* palette_data is None: None + bytes
                 Err("TypeError: unsupported operand type(s) for +")
            ELSE LET palette_depth == IF entry.subtype = 2 THEN 32 ELSE 16
                     raw == FileRead(f, pos, IF entry.subtype = 2 THEN 1024 ELSE 512)
                     palette_bytes == change_pixel_order(raw, palette_depth)
                     palette_data == IF palette_bytes.ok
                                     THEN unswizzle_8bit_palette(palette_bytes.val)
                                     ELSE palette_bytes
                 IN  IF ~palette_data.ok THEN palette_data
                     ELSE yield(8, palette_depth,
                                palette_data.val \o
                                FileRead(f, pos + Len(raw), entry.width * entry.height))
        ELSE IF entry.type = 3 THEN
            LET img == change_pixel_order(
                                FileRead(f, pos, entry.width * entry.height * 2), 16)
            IN  IF ~img.ok THEN img ELSE yield(16, 32, img.val)
        ELSE \* the print of the else branch names flags_type, which is not defined
             Err("NameError: name 'flags_type' is not defined")

----------------------------------------------------------------------------
(* tga.py: TGAFile                                                         *)

TYPE_PALETTED == 1
TYPE_TRUECOLOR == 2

(* TGAFile._determine_image_type: types[self.depth] *)
_determine_image_type(depth) == IF depth = 8 THEN TYPE_PALETTED ELSE TYPE_TRUECOLOR

(* TGAFile.__init__: an 8-bit image given without a palette carries it as  *)
(* the first 1024 bytes of image_data.                                     *)
TGAFile(width, height, depth, img, palette, palette_size, palette_depth, origin_bottom_left) ==
    LET split == depth = 8 /\ palette = <<>>
    IN  [width |-> width, height |-> height, depth |-> depth,
         image_data |-> IF split THEN PySlice(img, 1024, Len(img)) ELSE img,
         palette |-> IF split THEN PySlice(img, 0, 1024) ELSE palette,
         palette_size |-> palette_size, palette_depth |-> palette_depth,
         origin_bottom_left |-> origin_bottom_left,
         image_type |-> _determine_image_type(depth)]

(* rows = [data[i:i+row_size] for i in range(0, len(data), row_size)];     *)
(* rows.reverse(); b''.join(rows) -- from offset i on, for row_size > 0    *)
RECURSIVE ReverseRows(_, _, _)
ReverseRows(data, row_size, i) ==
    IF i >= Len(data) THEN <<>>
    ELSE ReverseRows(data, row_size, i + row_size) \o PySlice(data, i, i + row_size)

(* TGAFile.write_to_stream: the bytes written, or the exception raised     *)
write_to_stream(tga) ==
    LET cmap_type == IF tga.depth = 8 THEN 1 ELSE 0
        cmap_spec == IF cmap_type = 1
                     THEN PackH(0) \o PackH(tga.palette_size) \o <<tga.palette_depth>>
                     ELSE <<0, 0, 0, 0, 0>>
        descriptor == (IF tga.origin_bottom_left THEN 32 ELSE 0)
                      + (IF tga.depth = 32 THEN 8 ELSE IF tga.depth = 16 THEN 1 ELSE 0)
        header == <<0, cmap_type, tga.image_type>> \o cmap_spec \o PackH(0) \o PackH(0)
                    \o PackH(tga.width) \o PackH(tga.height)
                    \o <<tga.depth, descriptor>>
        padded_palette == IF cmap_type = 1 /\ tga.palette # <<>>
                          THEN PySlice(Ljust(tga.palette, 256 * 4), 0, 256 * 4)
                          ELSE <<>>
        flip == ~tga.origin_bottom_left /\ tga.height > 1
        row_size == tga.width * (tga.depth \div 8)
    IN  IF flip /\ row_size = 0
        THEN Err("ValueError: range() arg 3 must not be zero")
        ELSE Ok(header \o padded_palette \o
                (IF flip THEN ReverseRows(tga.image_data, row_size, 0)
                 ELSE tga.image_data))

(* TGAFile.from_bytes: the object it returns (a TGAFile() with the parsed  *)
(* attributes set; palette_depth and image_type keep their defaults)       *)
from_bytes(file_bytes) ==
    IF Len(file_bytes) < 18 THEN Err("ValueError: File too small to be a TGA")
    ELSE
    LET id_len == file_bytes[1]
        cmap_type == file_bytes[2]
        cmap_len == UnpackH(SubSeq(file_bytes, 6, 7))
        cmap_depth == file_bytes[8]
        width == UnpackH(SubSeq(file_bytes, 13, 14))
        height == UnpackH(SubSeq(file_bytes, 15, 16))
        depth == file_bytes[17]
        descriptor == file_bytes[18]
        offset == 18 + id_len
        pal_size == IF cmap_type = 1 THEN cmap_len * (cmap_depth \div 8) ELSE 0
        img_data_size == width * height * (depth \div 8)
    IN  Ok([width |-> width, height |-> height, depth |-> depth,
            image_data |-> PySlice(file_bytes, offset + pal_size,
                                   offset + pal_size + img_data_size),
            palette |-> PySlice(file_bytes, offset, offset + pal_size),
            palette_size |-> 256, palette_depth |-> 32,
            origin_bottom_left |-> ((descriptor \div 32) % 2 = 1),
            image_type |-> TYPE_TRUECOLOR,
            id_len |-> id_len, cmap_type |-> cmap_type, img_type |-> file_bytes[3],
            cmap_start |-> UnpackH(SubSeq(file_bytes, 4, 5)),
            cmap_len |-> cmap_len, cmap_depth |-> cmap_depth,
            x_origin |-> UnpackH(SubSeq(file_bytes, 9, 10)),
            y_origin |-> UnpackH(SubSeq(file_bytes, 11, 12)),
            alpha_bits |-> descriptor % 16])

----------------------------------------------------------------------------
(* process_peg.py: PEGProcessor._extract_archive and _pack_directory       *)

(* str.lower() on character codes *)
Lower(t) == [i \in 1..Len(t) |-> IF t[i] >= 65 /\ t[i] <= 90 THEN t[i] + 32 ELSE t[i]]

DOT_TGA == <<46, 116, 103, 97>>     \* '.tga'

EndsWith(t, suffix) ==
    /\ Len(t) >= Len(suffix)
    /\ SubSeq(t, Len(t) - Len(suffix) + 1, Len(t)) = suffix

(* name = image.name, or f"{image.name}.tga" *)
TgaName(name) == IF EndsWith(Lower(name), DOT_TGA) THEN name ELSE name \o DOT_TGA

(* os.path.splitext(name)[0]: the name up to its last dot, when that dot   *)
(* follows a character that is not a dot                                   *)
Stem(name) ==
    LET dots == {i \in 2..Len(name) :
                    name[i] = 46 /\ \E j \in 1..(i - 1) : name[j] # 46}
    IN  IF dots = {} THEN name
        ELSE SubSeq(name, 1, (CHOOSE i \in dots : \A j \in dots : j <= i) - 1)

FRAME_MARK == <<95, 95, 95, 102, 114, 97, 109, 101, 95>>     \* '___frame_'

(* f"{filepath_without_ext}___frame_{k}.tga", for k < 10 *)
FrameName(name, k) == Stem(name) \o FRAME_MARK \o <<48 + k>> \o DOT_TGA

(* sub in t *)
Contains(t, sub) ==
    \E i \in 1..(Len(t) - Len(sub) + 1) : SubSeq(t, i, i + Len(sub) - 1) = sub

(* The passes of "for i, frame in enumerate(image.frames)" from frame k    *)
(* (1-based) on: tga.image_data = frame.data, tga.pallete = frame.palette  *)
(* (an attribute nothing reads: tga.palette stays as constructed), save.   *)
RECURSIVE SaveFrames(_, _, _, _, _)
SaveFrames(tga, name, frames, k, saved) ==
    IF k > Len(frames) THEN [files |-> saved, err |-> "none"]
    ELSE LET w == write_to_stream([tga EXCEPT !.image_data = frames[k].data])
         IN  IF ~w.ok THEN [files |-> saved, err |-> w.err]
             ELSE SaveFrames(tga, name, frames, k + 1,
                             Append(saved, [frame |-> k, name |-> FrameName(name, k),
                                            bytes |-> w.val]))

(* The body of the loop of _extract_archive for one image: the files it    *)
(* saves and the exception, if any, that its "except Exception" counts.    *)
ExtractBody(image) ==
    IF Len(image.frames) = 0
    THEN [files |-> <<>>, err |-> "IndexError: list index out of range"]
    ELSE LET tga == TGAFile(image.width, image.height, image.depth,
                            image.frames[1].data, image.frames[1].palette,
                            256, image.palette_depth, FALSE)
         IN  IF Len(image.frames) = 1
             THEN LET w == write_to_stream(tga)
                  IN  IF ~w.ok THEN [files |-> <<>>, err |-> w.err]
                      ELSE [files |-> <<[frame |-> 0, name |-> TgaName(image.name),
                                         bytes |-> w.val]>>,
                            err |-> "none"]
             ELSE SaveFrames(tga, TgaName(image.name), image.frames, 1, <<>>)

(* PEGProcessor._get_image_type *)
_get_image_type(depth) ==
    CASE depth = 32 -> 7 [] depth = 16 -> 3 [] depth = 8 -> 4 [] OTHER -> 0

(* TGAFile.load, which _pack_directory calls and tga.py does not define:   *)
(* taken to parse the file into the object as TGAFile.from_bytes does.     *)
load(file_bytes) == from_bytes(file_bytes)

(* The entry and payload _pack_directory appends for one loaded .tga file  *)
PackEntry(tga, filename) ==
    [entry |-> PEGFileEntry(tga.width, tga.height, _get_image_type(tga.depth),
                            IF tga.depth = 8
                            THEN (IF tga.palette_depth = 32 THEN 2 ELSE 1) ELSE 0,
                            0, 1, 0, 1, 0, filename, 0),
     data |-> tga.image_data]

(* The inner "for filename in files" over the first n files listed: every  *)
(* file that loads is appended to the archive (again on each outer pass).  *)
RECURSIVE PackFiles(_, _, _, _, _)
PackFiles(listed, n, k, ents, datas) ==
    IF k > n THEN [entries |-> ents, image_data |-> datas]
    ELSE LET tga == load(listed[k].bytes)
         IN  IF ~tga.ok THEN PackFiles(listed, n, k + 1, ents, datas)
             ELSE LET pe == PackEntry(tga.val, listed[k].name)
                  IN  PackFiles(listed, n, k + 1, Append(ents, pe.entry),
                                Append(datas, pe.data))

----------------------------------------------------------------------------
(* plugins/noesis/fmt_RF2_peg.py: unswizzle_8bit_palette, 1024 bytes only  *)

NoesisUnswizzle(palette) ==
    IF Len(palette) # 1024
    THEN Err("ValueError: Input must be 1024 bytes")
    ELSE Ok([k \in 1..1024 |->
                LET block == ((k - 1) \div 128) * 128
                    seg == ((k - 1) % 128) \div 32
                    src == CASE seg = 0 -> block
                             [] seg = 1 -> block + 64
                             [] seg = 2 -> block + 32
                             [] seg = 3 -> block + 96
                IN  palette[src + ((k - 1) % 32) + 1]])

(* NoeBitStream reads n bytes at pos; the stream is the host's, and what   *)
(* it does past the end of the data is not in the sources: the plugin is   *)
(* modelled on reads that stay inside the data.                            *)
InStream(f, pos, n) == pos + n <= Len(f)

NOESIS_MAGIC == 1447773511

(* PEGImage.parseHeader: its return value, num and the stream position.    *)
(* readUInt() != 1447773511 is compared on the four bytes read.            *)
parseHeader(f) ==
    IF FileRead(f, 0, 4) # PackI(NOESIS_MAGIC)
    THEN [ret |-> 1, num |-> 0, pos |-> 4]
    ELSE [ret |-> 0, num |-> UnpackI(FileRead(f, 16, 4)), pos |-> 32]

(* PEGFileEntry.read of the plugin, at position pos *)
NoesisEntryRead(f, pos) ==
    [width |-> UnpackH(FileRead(f, pos, 2)),
     height |-> UnpackH(FileRead(f, pos + 2, 2)),
     flags |-> UnpackI(FileRead(f, pos + 4, 4)),
     flags2 |-> UnpackI(FileRead(f, pos + 8, 4)),
     name |-> get_cstring(FileRead(f, pos + 12, 48)),
     offset |-> UnpackI(FileRead(f, pos + 60, 4))]

(* PEGImage.readEntries: self.num entries from the stream position on *)
readEntries(f, pos, num) == [i \in 1..num |-> NoesisEntryRead(f, pos + (64 * (i - 1)))]

(* PEGImage.read: parseHeader, its return value dropped, then readEntries  *)
PEGImageRead(f) ==
    LET h == parseHeader(f)
    IN  Ok([num_images |-> h.num, entries |-> readEntries(f, h.pos, h.num)])

(* The reads of PEGImage.read all stay inside the data *)
NoesisInStream(f) ==
    /\ InStream(f, 0, 4)
    /\ FileRead(f, 0, 4) = PackI(NOESIS_MAGIC) =>
          /\ InStream(f, 16, 4)
          /\ InStream(f, 32, 64 * parseHeader(f).num)

----------------------------------------------------------------------------
(* Inputs of the transform checks.                                         *)

MaxSmallLen == 72       \* palette buffers of every length 0..MaxSmallLen
MaxPixBytes == 8        \* pixel buffers of every length 0..MaxPixBytes

Seeds == {0, 3, 200}
Muls == {1, 7}
LoBytes == {0, 1, 2, 4, 8, 16, 31, 32, 64, 85, 128, 170, 224, 255}
HiBytes == {0, 1, 2, 3, 4, 8, 16, 32, 64, 85, 124, 127, 128, 131, 170, 252, 255}

(* A marker buffer: byte i is seed + mul*i, shifted by one each 256 bytes. *)
GenBytes(seed, mul, n) ==
    [i \in 1..n |-> (seed + (mul * (i - 1)) + ((i - 1) \div 256)) % 256]

(* A pixel buffer whose first 16-bit pixel is (lo, hi).                    *)
GenPixels(lo, hi, n) ==
    [i \in 1..n |-> IF (i - 1) % 2 = 0 THEN (lo + (37 * ((i - 1) \div 2))) % 256
                    ELSE (hi + (91 * ((i - 1) \div 2))) % 256]

PaletteLens == {(PALETTE_ENTRIES * 16) \div 8, (PALETTE_ENTRIES * 32) \div 8}

----------------------------------------------------------------------------
(* The transforms applied once and twice to a drawn input.                 *)

Transform(fn, buf) ==
    CASE fn = "swizzle" -> unswizzle_8bit_palette(buf)
      [] fn = "order32" -> change_pixel_order(buf, 32)
      [] fn = "order16" -> change_pixel_order(buf, 16)

XformInputs(fn) ==
    IF fn = "swizzle"
    THEN {GenBytes(seed, mul, n) :
            seed \in Seeds, mul \in Muls, n \in (0..MaxSmallLen) \cup PaletteLens}
    ELSE {GenPixels(lo, hi, n) : lo \in LoBytes, hi \in HiBytes, n \in 0..MaxPixBytes}

ArchiveIdle ==
    /\ entries = <<>>
    /\ image_data = <<>>
    /\ file = <<>>
    /\ rd = NoResult
    /\ apc = "idle"

ExtractIdle ==
    /\ tool = "none"
    /\ idx = 0
    /\ delivered = <<>>
    /\ errors = <<>>
    /\ out_files = <<>>
    /\ failed = 0
    /\ total_failed = 0
    /\ packed = 0
    /\ epc = "idle"

XformInit ==
    /\ xfn \in {"swizzle", "order32", "order16"}
    /\ xin \in XformInputs(xfn)
    /\ xout1 = NoResult
    /\ xout2 = NoResult
    /\ xpc = "start"
    /\ ArchiveIdle
    /\ ExtractIdle

XformIdle ==
    /\ xfn = "none"
    /\ xin = <<>>
    /\ xout1 = NoResult
    /\ xout2 = NoResult
    /\ xpc = "idle"

(* out = f(b) *)
ApplyOnce ==
    /\ xpc = "start"
    /\ xout1' = Transform(xfn, xin)
    /\ xpc' = "once"
    /\ UNCHANGED <<xfn, xin, xout2>>
    /\ UNCHANGED archiveVars
    /\ UNCHANGED extractVars

(* out2 = f(f(b)): an exception of the inner call is the outcome of both.  *)
ApplyTwice ==
    /\ xpc = "once"
    /\ xout2' = IF xout1.ok THEN Transform(xfn, xout1.val) ELSE xout1
    /\ xpc' = "twice"
    /\ UNCHANGED <<xfn, xin, xout1>>
    /\ UNCHANGED archiveVars
    /\ UNCHANGED extractVars

XformNext == ApplyOnce \/ ApplyTwice

SpecXform == XformInit /\ [][XformNext]_vars

----------------------------------------------------------------------------
(* Claims about the transforms (specification SpecXform).                  *)

IsSwizzleRun == xfn = "swizzle" /\ xpc # "start"

(* C3 as stated: for every buffer b whose length is a multiple of 32,      *)
(* unswizzle_8bit_palette(unswizzle_8bit_palette(b)) = b.                  *)
C3_AsStated ==
    (xfn = "swizzle" /\ xpc = "twice" /\ Len(xin) % 32 = 0) => xout2 = Ok(xin)

(* C3 amended: for every buffer b whose length is a positive multiple of   *)
(* 32, unswizzle_8bit_palette(unswizzle_8bit_palette(b)) = b; the empty    *)
(* buffer raises ValueError.                                               *)
C3_SwizzleInvolution ==
    (xfn = "swizzle" /\ xpc = "twice" /\ Len(xin) % 32 = 0) =>
        IF Len(xin) > 0 THEN xout2 = Ok(xin) ELSE ~xout2.ok

C3_Witness ==
    /\ xfn = "swizzle" /\ xpc = "twice" /\ Len(xin) = 1024
    /\ xout1.ok /\ xout1.val # xin
    /\ xout2 = Ok(xin)

(* C4: the channel-order swap is an involution at both sample widths:      *)
(* change_pixel_order(change_pixel_order(d, 32), 32) = d for d of whole    *)
(* 4-byte pixels, and the same at depth 16 for d of whole 2-byte pixels.   *)
C4_OrderInvolution ==
    /\ (xfn = "order32" /\ xpc = "twice" /\ Len(xin) % 4 = 0) => xout2 = Ok(xin)
    /\ (xfn = "order16" /\ xpc = "twice" /\ Len(xin) % 2 = 0) => xout2 = Ok(xin)

C4_Witness ==
    /\ xfn = "order16" /\ xpc = "twice" /\ Len(xin) = 4
    /\ xout1.ok /\ xout1.val[1] # xin[1] /\ xout1.val[4] # xin[4]
    /\ xout2 = Ok(xin)

(* The block layout of the claim: 8 macro-blocks of L/8 bytes, each of 4   *)
(* quarters of L/32 bytes; quarters 1 and 2 exchanged, 0 and 3 in place.   *)
QuarterSwap(b) ==
    LET L == Len(b)
        macro == L \div 8
        quarter == L \div 32
    IN  [k \in 1..L |->
            LET mb == (k - 1) \div macro
                q == ((k - 1) % macro) \div quarter
                r == (k - 1) % quarter
                sq == CASE q = 1 -> 2 [] q = 2 -> 1 [] OTHER -> q
            IN  b[(mb * macro) + (sq * quarter) + r + 1]]

Bit(v, k) == (v \div (2 ^ k)) % 2

(* C6: at depth 32 every 4-byte pixel has bytes 0 and 2 exchanged and      *)
(* bytes 1 and 3 unchanged; at depth 16 every little-endian 16-bit value   *)
(* keeps bit 15 and bits 5-9 and has bits 0-4 and bits 10-14 exchanged.    *)
C6_OrderReference ==
    /\ (xfn = "order32" /\ xpc # "start" /\ Len(xin) % 4 = 0) =>
          /\ xout1.ok
          /\ Len(xout1.val) = Len(xin)
          /\ \A j \in 0..((Len(xin) \div 4) - 1) :
                /\ xout1.val[(4 * j) + 1] = xin[(4 * j) + 3]
                /\ xout1.val[(4 * j) + 3] = xin[(4 * j) + 1]
                /\ xout1.val[(4 * j) + 2] = xin[(4 * j) + 2]
                /\ xout1.val[(4 * j) + 4] = xin[(4 * j) + 4]
    /\ (xfn = "order16" /\ xpc # "start" /\ Len(xin) % 2 = 0) =>
          /\ xout1.ok
          /\ Len(xout1.val) = Len(xin)
          /\ \A j \in 0..((Len(xin) \div 2) - 1) :
                LET v == xin[(2 * j) + 1] + (256 * xin[(2 * j) + 2])
                    w == xout1.val[(2 * j) + 1] + (256 * xout1.val[(2 * j) + 2])
                IN  /\ Bit(w, 15) = Bit(v, 15)
                    /\ \A i \in 5..9 : Bit(w, i) = Bit(v, i)
                    /\ \A i \in 0..4 : /\ Bit(w, 10 + i) = Bit(v, i)
                                       /\ Bit(w, i) = Bit(v, 10 + i)

C6_Witness ==
    /\ xfn = "order16" /\ xpc = "once"
    /\ xin = <<31, 128>>
    /\ xout1 = Ok(<<0, 252>>)

(* C7: the palette block swizzle applied to a buffer whose length is not a *)
(* multiple of 32 fails with an invalid-size error and returns no buffer.  *)
C7_AsStated ==
    (IsSwizzleRun /\ Len(xin) % 32 # 0) => ~xout1.ok

----------------------------------------------------------------------------
(* Building an archive, writing it and reading it back.                    *)

MaxEntries == 2         \* entries appended to one archive
MaxPayloadLen == 5      \* payloads of every length 0..MaxPayloadLen

(* Entries as a caller may construct them; the first is the shape          *)
(* _pack_directory gives a 32-bit image.  Names are character codes.       *)
EntryChoices ==
    { PEGFileEntry(2, 2, 7, 0, 0, 1, 0, 1, 0, <<97>>, 0),
      PEGFileEntry(1, 2, 4, 2, 1, 1, 0, 1, 0, <<98, 46, 116>>, 0),
      PEGFileEntry(258, 3, 3, 0, 2, 5, 7, 2, 513, <<99, 100>>, 0),
      PEGFileEntry(1, 1, 7, 0, 1, 1, 0, 1, 0, [i \in 1..47 |-> 64 + i], 0),
      PEGFileEntry(1, 1, 3, 0, 1, 1, 0, 1, 0, [i \in 1..48 |-> 64 + i], 0) }

PayloadChoices == {GenBytes(17, 3, n) : n \in 0..MaxPayloadLen}

ArchiveInit ==
    /\ entries = <<>>
    /\ image_data = <<>>
    /\ file = <<>>
    /\ rd = NoResult
    /\ apc = "filling"
    /\ XformIdle
    /\ ExtractIdle

(* archive.entries.append(entry); archive.image_data.append(data) *)
AppendEntry ==
    /\ apc = "filling"
    /\ Len(entries) < MaxEntries
    /\ \E entry \in EntryChoices, data \in PayloadChoices :
            /\ entries' = Append(entries, entry)
            /\ image_data' = Append(image_data, data)
    /\ UNCHANGED <<file, rd, apc>>
    /\ UNCHANGED xformVars
    /\ UNCHANGED extractVars

(* PEGImageArchive.write *)
write ==
    /\ apc = "filling"
    /\ LET f1 == _write_header(6, entries, image_data)
           w2 == _write_entries(f1, entries, image_data)
       IN  /\ entries' = w2.entries
           /\ file' = _write_image_data(w2.file, w2.entries, image_data)
    /\ apc' = "written"
    /\ UNCHANGED <<image_data, rd>>
    /\ UNCHANGED xformVars
    /\ UNCHANGED extractVars

(* PEGImageArchive(file_path).read() on the file written *)
ReadBack ==
    /\ apc = "written"
    /\ rd' = read(file)
    /\ apc' = "read"
    /\ UNCHANGED <<entries, image_data, file>>
    /\ UNCHANGED xformVars
    /\ UNCHANGED extractVars

ArchiveNext == AppendEntry \/ write \/ ReadBack

SpecArchive == ArchiveInit /\ [][ArchiveNext]_vars

(* C2: reading the bytes produced by write yields N entries with the same  *)
(* name, width, height, type, subtype and frame count in the same order,   *)
(* and the bytes at each entry's read-back offset are that entry's payload.*)
C2_AsStated ==
    apc = "read" =>
        /\ rd.ok
        /\ Len(rd.val.entries) = Len(entries)
        /\ \A i \in 1..Len(entries) :
              LET e == rd.val.entries[i] IN
              /\ e.name = entries[i].name
              /\ e.width = entries[i].width
              /\ e.height = entries[i].height
              /\ e.type = entries[i].type
              /\ e.subtype = entries[i].subtype
              /\ e.frame_num = entries[i].frame_num
              /\ FileRead(file, e.offset, Len(image_data[i])) = image_data[i]

----------------------------------------------------------------------------
(* Unpacking one .peg file with either script, then packing the .tga       *)
(* files process_peg.py saved.                                             *)

MaxImages == 2          \* entries of the archive unpacked
MaxCut == 1             \* bytes missing from the end of the file, 0..MaxCut

(* Shapes of the entries of the archives unpacked.                         *)
Shape(type, subtype, width, height, frame_num) ==
    [type |-> type, subtype |-> subtype, width |-> width, height |-> height,
     frame_num |-> frame_num]

ShapeChoices ==
    { Shape(7, 0, 2, 2, 1), Shape(3, 0, 2, 1, 1), Shape(4, 2, 2, 2, 1),
      Shape(4, 1, 1, 2, 1), Shape(4, 0, 1, 1, 1), Shape(9, 0, 1, 1, 1),
      Shape(7, 0, 1, 1, 0), Shape(4, 2, 1, 1, 2) }

(* Bytes one frame of a shape occupies, and the frames stored.             *)
FrameBytes(sh) ==
    CASE sh.type = 7 -> sh.width * sh.height * 4
      [] sh.type = 3 -> sh.width * sh.height * 2
      [] sh.type = 4 -> (IF sh.subtype = 1 THEN 512 ELSE 1024) + (sh.width * sh.height)
      [] OTHER -> sh.width * sh.height
StoredFrames(sh) == IF sh.frame_num > 1 THEN sh.frame_num ELSE 1
PayloadBytes(sh) == StoredFrames(sh) * FrameBytes(sh)

(* The payload of the i-th entry (1-based): marker bytes; the first        *)
(* entry's start at 0 so that byte k of its payload is k mod 256.          *)
ShapePayload(sh, i) == GenBytes((i - 1) * 77, 1, PayloadBytes(sh))

RECURSIVE ShapeOffset(_, _)
ShapeOffset(shapes, i) ==
    IF i = 1 THEN 32 + (64 * Len(shapes))
    ELSE ShapeOffset(shapes, i - 1) + PayloadBytes(shapes[i - 1])

ShapeEntry(shapes, i) ==
    PEGFileEntry(shapes[i].width, shapes[i].height, shapes[i].type, shapes[i].subtype,
                 shapes[i].frame_num, 1, 0, 1, 0, <<96 + i>>, ShapeOffset(shapes, i))

RECURSIVE Concat(_)
Concat(seqs) == IF seqs = <<>> THEN <<>> ELSE Head(seqs) \o Concat(Tail(seqs))

(* A .peg file as the game ships it: 32-byte header, the entry records     *)
(* from byte 32, the payloads behind them in entry order.                  *)
GameArchive(shapes) ==
    LET n == Len(shapes)
        payloads == [i \in 1..n |-> ShapePayload(shapes[i], i)]
        records == [i \in 1..n |->
                      LET e == ShapeEntry(shapes, i)
                      IN  PackEntryFields(e) \o Ljust(e.name, 48) \o PackI(e.offset)]
    IN  MAGIC \o PackI(6) \o PackI(64 * n) \o PackI(SumLen(payloads)) \o PackI(n)
              \o PackI(0) \o PackI(0) \o PackI(16)
              \o Concat(records) \o Concat(payloads)

(* Shapes of the entries behind the first one *)
FollowerChoices ==
    { Shape(7, 0, 1, 1, 1), Shape(4, 2, 1, 1, 1), Shape(9, 0, 1, 1, 1) }

ShapeLists ==
    UNION { { sl \in [1..n -> ShapeChoices \cup FollowerChoices] :
                /\ sl[1] \in ShapeChoices
                /\ \A i \in 2..n : sl[i] \in FollowerChoices } : n \in 1..MaxImages }

ExtractInit ==
    /\ tool \in {"process_peg", "unpack_peg"}
    /\ \E shapes \in ShapeLists, cut \in 0..MaxCut :
          file = LET f == GameArchive(shapes) IN SubSeq(f, 1, Len(f) - cut)
    /\ rd = NoResult
    /\ idx = 0
    /\ delivered = <<>>
    /\ errors = <<>>
    /\ out_files = <<>>
    /\ failed = 0
    /\ total_failed = 0
    /\ packed = 0
    /\ epc = "start"
    /\ entries = <<>>
    /\ image_data = <<>>
    /\ apc = "idle"
    /\ XformIdle

Logged(i, r) ==
    [idx |-> i, err |-> r.err, cause |-> IF "cause" \in DOMAIN r THEN r.cause ELSE r.err]

(* archive.read() in unpack / main; an exception ends the work on the file *)
ReadArchive ==
    /\ epc = "start"
    /\ LET r == IF tool = "process_peg" THEN read(file) ELSE UnpackerRead(file)
       IN  /\ rd' = r
           /\ IF r.ok
              THEN /\ epc' = "extracting"
                   /\ UNCHANGED <<errors, total_failed>>
              ELSE /\ epc' = "done"
                   /\ errors' = Append(errors, Logged(0, r))
                   /\ total_failed' = IF tool = "process_peg" THEN total_failed + 1
                                      ELSE total_failed
    /\ UNCHANGED <<tool, idx, delivered, out_files, failed, packed>>
    /\ UNCHANGED <<entries, image_data, file, apc>>
    /\ UNCHANGED xformVars

(* process_peg.py: one pass of "for image in archive.extract_images()".    *)
(* The generator's _read_image_data runs outside the loop body's try: its  *)
(* exception leaves _extract_archive and is caught in unpack.              *)
ExtractImage ==
    /\ tool = "process_peg"
    /\ epc = "extracting"
    /\ idx < Len(rd.val.entries)
    /\ LET r == _read_image_data(file, rd.val.entries[idx + 1])
       IN  IF ~r.ok
           THEN /\ errors' = Append(errors, Logged(idx + 1, r))
                /\ total_failed' = total_failed + 1
                /\ epc' = "done"
                /\ UNCHANGED <<idx, delivered, out_files, failed>>
           ELSE LET body == ExtractBody(r.val)
                IN  /\ delivered' = Append(delivered, [idx |-> idx + 1, image |-> r.val])
                    /\ idx' = idx + 1
                    /\ out_files' = out_files \o
                          [k \in 1..Len(body.files) |->
                              [idx |-> idx + 1, frame |-> body.files[k].frame,
                               name |-> body.files[k].name,
                               bytes |-> body.files[k].bytes]]
                    /\ IF body.err = "none"
                       THEN UNCHANGED <<errors, failed>>
                       ELSE /\ errors' = Append(errors,
                                    [idx |-> idx + 1, err |-> body.err, cause |-> body.err])
                            /\ failed' = failed + 1
                    /\ UNCHANGED <<total_failed, epc>>
    /\ UNCHANGED <<tool, packed>>
    /\ UNCHANGED archiveVars
    /\ UNCHANGED xformVars

(* process_peg.py: the generator is exhausted; total_failed += failed *)
ExtractReturn ==
    /\ tool = "process_peg"
    /\ epc = "extracting"
    /\ idx = Len(rd.val.entries)
    /\ total_failed' = total_failed + failed
    /\ epc' = "extracted"
    /\ UNCHANGED <<tool, idx, delivered, errors, out_files, failed, packed>>
    /\ UNCHANGED archiveVars
    /\ UNCHANGED xformVars

(* unpack_peg.py: one pass of the loop of get_images and, when it yields,  *)
(* of the loop of main that saves the image.                               *)
UnpackerImage ==
    /\ tool = "unpack_peg"
    /\ epc = "extracting"
    /\ idx < Len(rd.val.entries)
    /\ idx' = idx + 1
    /\ LET r == get_images(file, rd.val.entries[idx + 1])
       IN  IF ~r.ok
           THEN /\ errors' = Append(errors, Logged(idx + 1, r))
                /\ UNCHANGED <<delivered, out_files, failed, epc>>
           ELSE /\ delivered' = Append(delivered, [idx |-> idx + 1, image |-> r.val])
                /\ IF r.val.image_data = <<>>
                   THEN /\ failed' = failed + 1
                        /\ UNCHANGED <<errors, out_files, epc>>
                   ELSE LET w == write_to_stream(
                                    TGAFile(r.val.width, r.val.height, r.val.depth,
                                            r.val.image_data, <<>>, 256,
                                            r.val.palette_depth, FALSE))
                        IN  IF w.ok
                            THEN /\ out_files' = Append(out_files,
                                        [idx |-> idx + 1, frame |-> 0,
                                         name |-> Stem(r.val.name) \o DOT_TGA,
                                         bytes |-> w.val])
                                 /\ UNCHANGED <<errors, failed, epc>>
                            ELSE /\ errors' = Append(errors,
                                        [idx |-> idx + 1, err |-> w.err, cause |-> w.err])
                                 /\ epc' = "done"
                                 /\ UNCHANGED <<out_files, failed>>
    /\ UNCHANGED <<tool, total_failed, packed>>
    /\ UNCHANGED archiveVars
    /\ UNCHANGED xformVars

(* unpack_peg.py: get_images is exhausted; peg_archive.close() *)
UnpackerDone ==
    /\ tool = "unpack_peg"
    /\ epc = "extracting"
    /\ idx = Len(rd.val.entries)
    /\ epc' = "done"
    /\ UNCHANGED <<tool, idx, delivered, errors, out_files, failed, total_failed, packed>>
    /\ UNCHANGED archiveVars
    /\ UNCHANGED xformVars

(* process_peg.py: one pass of "for filename in os.listdir(directory)" of  *)
(* _pack_directory over the folder unpack filled.  A frame file raises     *)
(* NameError (vtb_list); otherwise the inner loop packs every file listed  *)
(* so far.                                                                 *)
PackListed ==
    /\ tool = "process_peg"
    /\ epc = "extracted"
    /\ packed < Len(out_files)
    /\ IF Contains(out_files[packed + 1].name, FRAME_MARK)
       THEN /\ errors' = Append(errors,
                    [idx |-> out_files[packed + 1].idx,
                     err |-> "NameError: name 'vtb_list' is not defined",
                     cause |-> "NameError: name 'vtb_list' is not defined"])
            /\ epc' = "done"
            /\ UNCHANGED <<packed, entries, image_data>>
       ELSE LET a == PackFiles(out_files, packed + 1, 1, entries, image_data)
            IN  /\ entries' = a.entries
                /\ image_data' = a.image_data
                /\ packed' = packed + 1
                /\ UNCHANGED <<errors, epc>>
    /\ UNCHANGED <<tool, idx, delivered, out_files, failed, total_failed>>
    /\ UNCHANGED <<file, rd, apc>>
    /\ UNCHANGED xformVars

(* process_peg.py: _pack_directory returns to pack *)
PackReturn ==
    /\ tool = "process_peg"
    /\ epc = "extracted"
    /\ packed = Len(out_files)
    /\ epc' = "packed"
    /\ UNCHANGED <<tool, idx, delivered, errors, out_files, failed, total_failed, packed>>
    /\ UNCHANGED archiveVars
    /\ UNCHANGED xformVars

(* process_peg.py: archive.write() in pack, on the archive just filled *)
PackWrite ==
    /\ tool = "process_peg"
    /\ epc = "packed"
    /\ LET f1 == _write_header(6, entries, image_data)
           w2 == _write_entries(f1, entries, image_data)
       IN  /\ entries' = w2.entries
           /\ file' = _write_image_data(w2.file, w2.entries, image_data)
    /\ epc' = "written"
    /\ UNCHANGED <<tool, idx, delivered, errors, out_files, failed, total_failed, packed>>
    /\ UNCHANGED <<image_data, rd, apc>>
    /\ UNCHANGED xformVars

ExtractNext ==
    \/ ReadArchive
    \/ ExtractImage
    \/ ExtractReturn
    \/ UnpackerImage
    \/ UnpackerDone
    \/ PackListed
    \/ PackReturn
    \/ PackWrite

SpecExtract == ExtractInit /\ [][ExtractNext]_vars

----------------------------------------------------------------------------
(* Claims about unpacking and packing.                                     *)

(* The unpack of the archive has ended: nothing more is decoded or saved.  *)
UnpackEnded ==
    \/ tool = "process_peg" /\ epc \in {"done", "extracted", "packed"}
    \/ tool = "unpack_peg" /\ epc = "done"

(* The stored length of the payload of a single-frame entry e.             *)
EntryPayloadLen(e) ==
    CASE e.type = 7 -> e.width * e.height * 4
      [] e.type = 3 -> e.width * e.height * 2
      [] e.type = 4 -> (IF e.subtype = 1 THEN 512 ELSE 1024) + (e.width * e.height)
      [] OTHER -> 0

(* Entry e is one C1 speaks of: type 7, 3 or 4 with subtype 1 or 2, one    *)
(* frame, its payload wholly inside the file.                              *)
WellFormedEntry(e) ==
    /\ e.type \in {7, 3} \/ (e.type = 4 /\ e.subtype \in {1, 2})
    /\ e.frame_num = 1
    /\ e.offset + EntryPayloadLen(e) <= Len(file)

(* C1: for every well-formed entry payload x of type 7, 3 or 4 (subtype 1  *)
(* or 2), the payload the pack path stores for the image the unpack path   *)
(* made of x is x byte for byte: encode(decode(x)) = x.                    *)
C1_AsStated ==
    (tool = "process_peg" /\ epc = "packed") =>
        \A i \in 1..Len(rd.val.entries) :
            LET e == rd.val.entries[i] IN
            WellFormedEntry(e) =>
                \E k \in 1..Len(entries) :
                    /\ entries[k].name = TgaName(e.name)
                    /\ image_data[k] = FileRead(file, e.offset, EntryPayloadLen(e))

(* The decode of entry i of the archive read raises.                       *)
DecodeFails(i) ==
    IF tool = "process_peg" THEN ~_read_image_data(file, rd.val.entries[i]).ok
    ELSE ~get_images(file, rd.val.entries[i]).ok

Delivered(i) == \E k \in 1..Len(delivered) : delivered[k].idx = i

(* C8: decoding an entry whose pixel type is not 3, 4 or 7 fails with an   *)
(* unsupported-format error and produces no image for that entry.          *)
C8_AsStated ==
    (rd.ok /\ epc # "start") =>
        \A i \in 1..Len(rd.val.entries) :
            rd.val.entries[i].type \notin {3, 4, 7} =>
                /\ ~Delivered(i)
                /\ \A k \in 1..Len(out_files) : out_files[k].idx # i
                /\ \A k \in 1..Len(errors) :
                      errors[k].idx = i => errors[k].cause = UNSUPPORTED

(* The part of C8 that process_peg.py keeps: the decode of such an entry   *)
(* raises the unsupported-type ValueError and nothing is saved for it.     *)
C8_ProcessPegUnsupported ==
    (tool = "process_peg" /\ rd.ok /\ epc # "start") =>
        \A i \in 1..Len(rd.val.entries) :
            rd.val.entries[i].type \notin {3, 4, 7} =>
                /\ ~Delivered(i)
                /\ \A k \in 1..Len(out_files) : out_files[k].idx # i
                /\ \A k \in 1..Len(errors) :
                      errors[k].idx = i => errors[k].cause = UNSUPPORTED
                /\ (epc = "done" /\ idx = i - 1) =>
                      \E k \in 1..Len(errors) : errors[k].idx = i

(* C9: decoding a type-4 entry whose subtype is neither 1 nor 2 fails with *)
(* an unsupported-format error; it is never decoded as if it had a 16-bit  *)
(* or 32-bit palette.                                                      *)
C9_AsStated ==
    (rd.ok /\ epc # "start") =>
        \A i \in 1..Len(rd.val.entries) :
            (rd.val.entries[i].type = 4 /\ rd.val.entries[i].subtype \notin {1, 2}) =>
                /\ ~Delivered(i)
                /\ \A k \in 1..Len(errors) :
                      errors[k].idx = i => errors[k].cause = UNSUPPORTED

(* The failures the script reports for the archive.                        *)
FailureCount == IF tool = "process_peg" THEN total_failed ELSE failed

(* The failures that are not decode failures: a decoded image that is not  *)
(* saved (no frame to save, no bytes to save, the write raises).           *)
SaveFails(i) ==
    /\ ~DecodeFails(i)
    /\ IF tool = "process_peg"
       THEN ExtractBody(_read_image_data(file, rd.val.entries[i]).val).err # "none"
       ELSE get_images(file, rd.val.entries[i]).val.image_data = <<>>

(* C10: when decoding one entry of an archive fails, every entry after it  *)
(* that decodes is still decoded and delivered, and the failure count      *)
(* holds exactly one for each failed entry.                                *)
C10_AsStated ==
    (UnpackEnded /\ rd.ok) =>
        LET n == Len(rd.val.entries)
            bad == {i \in 1..n : DecodeFails(i)}
            unsaved == {i \in 1..n : SaveFails(i)}
        IN  /\ \A i \in bad : \A j \in (i + 1)..n : ~DecodeFails(j) => Delivered(j)
            /\ FailureCount = Cardinality(bad) + Cardinality(unsaved)

----------------------------------------------------------------------------
(* Reading a file whose header is damaged: wrong magic, or fewer than      *)
(* HEADER_SIZE bytes.                                                      *)

HEADER_SIZE == 32

BadMagicBytes == {0, 103, 255}

(* f with byte k (1-based) replaced by b *)
WithByte(f, k, b) == [i \in 1..Len(f) |-> IF i = k THEN b ELSE f[i]]

HeaderBases == {GameArchive(<<>>)} \cup {GameArchive(<<sh>>) : sh \in ShapeChoices}

BadMagicFiles == {WithByte(f, k, b) : f \in HeaderBases, k \in 1..4, b \in BadMagicBytes}

ShortHeaderFiles == {SubSeq(f, 1, n) : f \in HeaderBases, n \in 0..(HEADER_SIZE - 1)}

BadHeader(f) == FileRead(f, 0, 4) # MAGIC \/ Len(f) < HEADER_SIZE

HeaderInit ==
    /\ tool \in {"process_peg", "unpack_peg", "noesis"}
    /\ file \in BadMagicFiles \cup ShortHeaderFiles
    /\ tool = "noesis" => NoesisInStream(file)
    /\ rd = NoResult
    /\ idx = 0
    /\ delivered = <<>>
    /\ errors = <<>>
    /\ out_files = <<>>
    /\ failed = 0
    /\ total_failed = 0
    /\ packed = 0
    /\ epc = "start"
    /\ entries = <<>>
    /\ image_data = <<>>
    /\ apc = "idle"
    /\ XformIdle

(* fmt_RF2_peg.py: pegLoadRGBA on the data of a file the plugin reads as   *)
(* an empty entry table: read(), no pass of the loop of getImages (whose   *)
(* decoding is the host's rapi), return 1 with texList as it was.          *)
pegLoadRGBA ==
    /\ tool = "noesis"
    /\ epc = "start"
    /\ NoesisInStream(file)
    /\ LET r == PEGImageRead(file)
       IN  /\ Len(r.val.entries) = 0
           /\ rd' = r
    /\ epc' = "done"
    /\ UNCHANGED <<tool, idx, delivered, errors, out_files, failed, total_failed, packed>>
    /\ UNCHANGED <<entries, image_data, file, apc>>
    /\ UNCHANGED xformVars

HeaderNext ==
    \/ tool # "noesis" /\ ReadArchive
    \/ UnpackerDone
    \/ pegLoadRGBA

SpecHeader == HeaderInit /\ [][HeaderNext]_vars

(* C11: reading an archive whose first 4 bytes are not 'GEKV', or whose    *)
(* header is shorter than 32 bytes, fails with an error for the whole      *)
(* file: no entry is parsed and no image is decoded from it.               *)
C11_AsStated ==
    (tool \in {"process_peg", "noesis"} /\ BadHeader(file) /\ epc # "start") =>
        /\ ~rd.ok
        /\ Len(errors) > 0
        /\ delivered = <<>>
        /\ out_files = <<>>

(* The part of C11 that process_peg.py keeps: read raises on every such    *)
(* file, unpack counts one failure for it and decodes nothing.             *)
C11_ProcessPegFatal ==
    (tool = "process_peg" /\ BadHeader(file) /\ epc # "start") =>
        /\ ~rd.ok
        /\ epc = "done"
        /\ total_failed = 1
        /\ Len(errors) = 1
        /\ delivered = <<>>
        /\ out_files = <<>>

(* In no script is an entry parsed or an image decoded from such a file.   *)
C11_NothingParsed ==
    (BadHeader(file) /\ epc # "start") =>
        /\ rd.ok => rd.val.entries = <<>>
        /\ delivered = <<>>
        /\ out_files = <<>>

----------------------------------------------------------------------------
(* Claims about the layout of the file PEGImageArchive.write produces.     *)

Written == apc \in {"written", "read"}

(* C12: in the output of write for N entries, entry 0's stored offset is   *)
(* 32 + 64*N and for every i > 0 entry i's stored offset is entry (i-1)'s  *)
(* offset plus the length of payload i-1.                                  *)
C12_AsStated ==
    Written =>
        \A i \in 1..Len(entries) :
            /\ UnpackI(FileRead(file, 28 + (64 * (i - 1)) + 60, 4)) = entries[i].offset
            /\ entries[i].offset =
                  IF i = 1 THEN HEADER_SIZE + (64 * Len(entries))
                  ELSE entries[i - 1].offset + Len(image_data[i - 1])

(* The part of C12 the code keeps: the offsets are a running sum of the    *)
(* payload lengths; they start at 28 + 64*N.                               *)
C12_RunningSum ==
    Written =>
        \A i \in 1..Len(entries) :
            entries[i].offset =
                IF i = 1 THEN 28 + (64 * Len(entries))
                ELSE entries[i - 1].offset + Len(image_data[i - 1])

(* C13: in the bytes write produces, for every i the bytes in              *)
(* [e_i.offset, e_i.offset + len(p_i)) are exactly p_i, the payloads       *)
(* appear in entry order and no two payload ranges overlap.                *)
C13_AsStated ==
    Written =>
        /\ \A i \in 1..Len(entries) :
              FileRead(file, entries[i].offset, Len(image_data[i])) = image_data[i]
        /\ \A i, j \in 1..Len(entries) :
              i < j => entries[i].offset + Len(image_data[i]) <= entries[j].offset

(* The part of C13 the code keeps: the payloads lie back to back in entry  *)
(* order, from the LAST entry's offset on.                                 *)
C13_FromLastOffset ==
    (Written /\ Len(entries) > 0) =>
        FileRead(file, entries[Len(entries)].offset, SumLen(image_data))
            = Concat(image_data)

(* C14: in the output of write the header occupies bytes 0..31 and is left *)
(* intact by the later steps of write, and entry record i occupies bytes   *)
(* 32 + 64*i .. 32 + 64*i + 63.                                            *)
C14_AsStated ==
    Written =>
        /\ FileRead(file, 0, HEADER_SIZE) = _write_header(6, entries, image_data)
        /\ \A i \in 1..Len(entries) :
              FileRead(file, HEADER_SIZE + (64 * (i - 1)), 64)
                  = PackEntryFields(entries[i])
                      \o Ljust(PySlice(AsciiIgnore(entries[i].name), 0, 47), 48)
                      \o PackI(entries[i].offset)

(* What the code does instead: record i occupies bytes 28 + 64*i ..        *)
(* 28 + 64*i + 63, so record 0 overwrites bytes 28..31 of the header.      *)
C14_RecordsFrom28 ==
    Written =>
        /\ FileRead(file, 0, 28) = SubSeq(_write_header(6, entries, image_data), 1, 28)
        /\ \A i \in 1..Len(entries) :
              FileRead(file, 28 + (64 * (i - 1)), 64)
                  = PackEntryFields(entries[i])
                      \o Ljust(PySlice(AsciiIgnore(entries[i].name), 0, 47), 48)
                      \o PackI(entries[i].offset)

----------------------------------------------------------------------------
(* Claims about the images process_peg.py decodes.                         *)

(* C15: every frame returned by a successful decode has a pixel buffer of  *)
(* exactly width*height*(depth/8) bytes and, at depth 8, a palette of      *)
(* exactly 256*(paletteDepth/8) bytes; a source that ends before the       *)
(* payload region does makes the decode fail, not return a shorter frame.  *)
C15_AsStated ==
    tool = "process_peg" =>
        \A k \in 1..Len(delivered) :
            LET image == delivered[k].image IN
            \A n \in 1..Len(image.frames) :
                /\ Len(image.frames[n].data)
                      = image.width * image.height * (image.depth \div 8)
                /\ image.depth = 8 =>
                      Len(image.frames[n].palette)
                          = PALETTE_ENTRIES * (image.palette_depth \div 8)

(* The bytes the decode of entry e reads lie inside the file.              *)
PayloadInFile(e) ==
    LET pd == IF e.type = 4 /\ e.subtype = 1 THEN 16 ELSE 32
        per == CASE e.type = 7 -> e.width * e.height * 4
                 [] e.type = 3 -> e.width * e.height * 2
                 [] e.type = 4 -> (PALETTE_ENTRIES * (pd \div 8)) + (e.width * e.height)
                 [] OTHER -> 0
    IN  e.offset + (e.frame_num * per) <= Len(file)

(* The part of C15 the code keeps: the sizes are exact when the payload    *)
(* region is wholly inside the file.                                       *)
C15_CompleteSource ==
    (tool = "process_peg" /\ rd.ok /\ epc # "written") =>
        \A k \in 1..Len(delivered) :
            LET image == delivered[k].image IN
            PayloadInFile(rd.val.entries[delivered[k].idx]) =>
                \A n \in 1..Len(image.frames) :
                    /\ Len(image.frames[n].data)
                          = image.width * image.height * (image.depth \div 8)
                    /\ image.depth = 8 =>
                          Len(image.frames[n].palette)
                              = PALETTE_ENTRIES * (image.palette_depth \div 8)

(* C16: decoding an entry whose frame count is 0 or 1 yields an image with *)
(* exactly one frame, an entry whose frame count is k > 1 yields exactly k *)
(* frames; a decoded image never has zero frames.                          *)
C16_AsStated ==
    (tool = "process_peg" /\ rd.ok) =>
        \A k \in 1..Len(delivered) :
            LET e == rd.val.entries[delivered[k].idx] IN
            Len(delivered[k].image.frames) = IF e.frame_num <= 1 THEN 1 ELSE e.frame_num

(* What the code does: as many frames as the frame count says, zero for a  *)
(* frame count of 0; the n-th frame's pixels come from the n-th region.    *)
C16_FramesAsCounted ==
    (tool = "process_peg" /\ rd.ok /\ epc # "written") =>
        \A k \in 1..Len(delivered) :
            LET e == rd.val.entries[delivered[k].idx]
                image == delivered[k].image
            IN  /\ Len(image.frames) = e.frame_num
                /\ e.type = 4 =>
                      \A n \in 1..Len(image.frames) :
                          LET pal == PALETTE_ENTRIES * (image.palette_depth \div 8)
                              per == pal + (e.width * e.height)
                          IN  image.frames[n].data
                                = FileRead(file, e.offset + ((n - 1) * per) + pal,
                                           e.width * e.height)

----------------------------------------------------------------------------
(* A TGAFile object written with write_to_stream, the bytes parsed with    *)
(* from_bytes.                                                             *)

MaxWidth == 2           \* image widths 1..MaxWidth
MaxHeight == 3          \* image heights 1..MaxHeight

(* TGAFile objects as the scripts construct them: top-down pixel data of   *)
(* width*height*(depth/8) bytes and, at depth 8, a 256-colour palette.     *)
TgaInputs ==
    { TGAFile(w, h, d, GenBytes(seed, 5, w * h * (d \div 8)),
              IF d = 8 THEN GenBytes(seed + 100, 1, PALETTE_ENTRIES * (pd \div 8))
              ELSE <<>>,
              256, pd, obl) :
        w \in 1..MaxWidth, h \in 1..MaxHeight, d \in {8, 16, 32},
        pd \in {16, 32}, obl \in BOOLEAN, seed \in {1, 130} }

TgaInit ==
    /\ xfn = "tga"
    /\ xin \in TgaInputs
    /\ xout1 = NoResult
    /\ xout2 = NoResult
    /\ xpc = "start"
    /\ ArchiveIdle
    /\ ExtractIdle

(* tga.save(path): write_to_stream on the file opened *)
save ==
    /\ xfn = "tga"
    /\ xpc = "start"
    /\ xout1' = write_to_stream(xin)
    /\ xpc' = "saved"
    /\ UNCHANGED <<xfn, xin, xout2>>
    /\ UNCHANGED archiveVars
    /\ UNCHANGED extractVars

(* TGAFile.from_bytes on the bytes of the file saved *)
ParseSaved ==
    /\ xfn = "tga"
    /\ xpc = "saved"
    /\ xout1.ok
    /\ xout2' = from_bytes(xout1.val)
    /\ xpc' = "parsed"
    /\ UNCHANGED <<xfn, xin, xout1>>
    /\ UNCHANGED archiveVars
    /\ UNCHANGED extractVars

TgaNext == save \/ ParseSaved

SpecTga == TgaInit /\ [][TgaNext]_vars

(* The fields of the header written, read at their byte positions.         *)
WrittenCmapLen == UnpackH(SubSeq(xout1.val, 6, 7))
WrittenCmapDepth == xout1.val[8]
WrittenIdLen == xout1.val[1]
WrittenBit5 == (xout1.val[18] \div 32) % 2 = 1

(* The palette length the written header declares.                         *)
DeclaredPaletteLen ==
    IF xout1.val[2] = 1 THEN WrittenCmapLen * (WrittenCmapDepth \div 8) ELSE 0

(* The pixel rows as written: everything behind header and palette.        *)
WrittenPixels ==
    LET pal == IF xin.depth = 8 /\ xin.palette # <<>> THEN 256 * 4 ELSE 0
    IN  SubSeq(xout1.val, 18 + pal + 1, Len(xout1.val))

(* C17: parsing the bytes produced by write_to_stream recovers the same    *)
(* palette and pixel data: the palette region written is exactly           *)
(* cmapLen*(cmapDepth/8) bytes as the written header declares, so the      *)
(* pixel data starts at byte 18 + idLen + cmapLen*(cmapDepth/8).           *)
C17_AsStated ==
    (xfn = "tga" /\ xpc = "parsed") =>
        /\ xout2.ok
        /\ xout2.val.palette = xin.palette
        /\ xout2.val.image_data = WrittenPixels
        /\ Len(xout1.val) = 18 + WrittenIdLen + DeclaredPaletteLen + Len(xin.image_data)

(* The part of C17 the code keeps: true-colour images and images with a    *)
(* 32-bit palette are parsed back as written.                              *)
C17_Palette32 ==
    (xfn = "tga" /\ xpc = "parsed" /\ (xin.depth # 8 \/ xin.palette_depth = 32)) =>
        /\ xout2.ok
        /\ xout2.val.palette = xin.palette
        /\ xout2.val.image_data = WrittenPixels
        /\ Len(xout1.val) = 18 + WrittenIdLen + DeclaredPaletteLen + Len(xin.image_data)

(* The rows of data, each of row_size bytes, in reversed order.            *)
RowsReversed(data, row_size) ==
    LET n == Len(data) \div row_size
    IN  [i \in 1..Len(data) |->
            data[((n - 1 - ((i - 1) \div row_size)) * row_size) + ((i - 1) % row_size) + 1]]

(* C18: write_to_stream, given top-down pixel data, writes the rows in     *)
(* reversed order exactly when it sets descriptor bit 5 and unchanged      *)
(* exactly when bit 5 is clear; the reversal works on rows of              *)
(* width*(depth/8) bytes and applying it twice restores the data.          *)
C18_AsStated ==
    (xfn = "tga" /\ xpc # "start" /\ xout1.ok) =>
        LET row_size == xin.width * (xin.depth \div 8)
        IN  /\ WrittenBit5 => WrittenPixels = RowsReversed(xin.image_data, row_size)
            /\ ~WrittenBit5 => WrittenPixels = xin.image_data

(* What the code does: the rows are reversed exactly when bit 5 is CLEAR   *)
(* (origin_bottom_left false), and the reversal is its own inverse.        *)
C18_ReversedWhenClear ==
    (xfn = "tga" /\ xpc # "start" /\ xout1.ok) =>
        LET row_size == xin.width * (xin.depth \div 8)
        IN  /\ WrittenBit5 = xin.origin_bottom_left
            /\ ~WrittenBit5 => WrittenPixels = RowsReversed(xin.image_data, row_size)
            /\ WrittenBit5 => WrittenPixels = xin.image_data
            /\ ReverseRows(ReverseRows(xin.image_data, row_size, 0), row_size, 0)
                  = xin.image_data

----------------------------------------------------------------------------
(* The marker palette: macro-block 0 of the stored palette holds the bytes *)
(* 0x00..0x7F, quarter Qk the bytes 32k .. 32k + 31.                       *)

MarkerQuarter(k) == [i \in 1..32 |-> (32 * k) + (i - 1)]

(* The quarter with bytes 0 and 2 of each 4-byte colour exchanged.         *)
ChannelSwapped(q) ==
    [i \in 1..Len(q) |-> CASE (i - 1) % 4 = 0 -> q[i + 2]
                           [] (i - 1) % 4 = 2 -> q[i - 2]
                           [] OTHER -> q[i]]

(* Entry i is of type 4, subtype 2, and its stored palette starts with the *)
(* marker macro-block.                                                     *)
HasMarkerPalette(i) ==
    /\ rd.val.entries[i].type = 4
    /\ rd.val.entries[i].subtype = 2
    /\ FileRead(file, rd.val.entries[i].offset, 128)
          = MarkerQuarter(0) \o MarkerQuarter(1) \o MarkerQuarter(2) \o MarkerQuarter(3)

(* The first 128 bytes of the palette decoded for delivered image k.       *)
DecodedBlock0(k) ==
    IF tool = "process_peg"
    THEN PySlice(delivered[k].image.frames[1].palette, 0, 128)
    ELSE PySlice(delivered[k].image.image_data, 0, 128)

(* C19: decoding a type-4 subtype-2 entry whose stored 1024-byte palette   *)
(* has macro-block 0 filled with the marker bytes Q0, Q1, Q2, Q3 yields a  *)
(* decoded palette whose first 128 bytes read Q0, Q2, Q1, Q3.              *)
C19_AsStated ==
    (rd.ok /\ epc # "written") =>
        \A k \in 1..Len(delivered) :
            HasMarkerPalette(delivered[k].idx) =>
                DecodedBlock0(k) = MarkerQuarter(0) \o MarkerQuarter(2)
                                     \o MarkerQuarter(1) \o MarkerQuarter(3)

(* C19, amended: the first 128 bytes of the decoded palette read Q0, Q2,   *)
(* Q1, Q3 in that order, each quarter with the 32-bit channel swap applied *)
(* (bytes 0 and 2 of every 4-byte colour exchanged).                       *)
C19_MarkerPalette ==
    (rd.ok /\ epc # "written") =>
        \A k \in 1..Len(delivered) :
            HasMarkerPalette(delivered[k].idx) =>
                DecodedBlock0(k)
                    = ChannelSwapped(MarkerQuarter(0)) \o ChannelSwapped(MarkerQuarter(2))
                        \o ChannelSwapped(MarkerQuarter(1)) \o ChannelSwapped(MarkerQuarter(3))

C19_Witness ==
    /\ rd.ok
    /\ epc # "written"
    /\ \E k \in 1..Len(delivered) :
          /\ HasMarkerPalette(delivered[k].idx)
          /\ Len(DecodedBlock0(k)) = 128

----------------------------------------------------------------------------
(* Entry names through write and read.                                     *)

(* A name C20 speaks of: at most 47 ASCII characters, none of them null.   *)
PlainName(name) ==
    /\ Len(name) <= 47
    /\ \A i \in 1..Len(name) : name[i] > 0 /\ name[i] < 128

(* C20: entry names survive write then read: a name of at most 47 ASCII    *)
(* characters without a null byte is read back unchanged from the file     *)
(* write produced.                                                         *)
C20_AsStated ==
    apc = "read" =>
        \A i \in 1..Len(entries) :
            PlainName(entries[i].name) =>
                /\ rd.ok
                /\ i <= Len(rd.val.entries)
                /\ rd.val.entries[i].name = entries[i].name

(* The part of C20 the code keeps: the 48-byte field write stores for such *)
(* a name is its bytes followed by zeros, and get_cstring of that field is *)
(* the name; a longer name is cut to 47 characters.                        *)
C20_NameField ==
    Written =>
        \A i \in 1..Len(entries) :
            LET field == FileRead(file, 28 + (64 * (i - 1)) + 12, 48)
                name == entries[i].name
            IN  /\ Len(field) = 48
                /\ field[48] = 0
                /\ PlainName(name) =>
                      /\ field = name \o Zeros(48 - Len(name))
                      /\ get_cstring(field) = name
                /\ get_cstring(field) = PySlice(AsciiIgnore(name), 0, 47)

----------------------------------------------------------------------------
(* Reading a stored archive and writing it back with the same object.      *)

(* Values of the three u32 the header holds behind num_images; 16 is the   *)
(* value the class gives unk.                                              *)
ReservedChoices == {0, 16, 258}

(* Entries of the stored archives: single-frame, with different flag and   *)
(* misc bytes (u1, anim_delay, mipmaps, u2).                               *)
StoredEntryChoices ==
    { PEGFileEntry(1, 1, 7, 0, 1, 1, 0, 1, 0, <<97>>, 0),
      PEGFileEntry(1, 1, 7, 0, 1, 5, 7, 2, 513, <<98>>, 0),
      PEGFileEntry(1, 1, 3, 0, 1, 0, 3, 0, 2, <<99>>, 0) }

RECURSIVE StoredOffset(_, _)
StoredOffset(ents, i) ==
    IF i = 1 THEN 32 + (64 * Len(ents))
    ELSE StoredOffset(ents, i - 1) + EntryPayloadLen(ents[i - 1])

(* A .peg file in the layout read expects: the header with the three u32   *)
(* given, the entry records from byte 32, the payloads behind them.        *)
StoredArchive(reserved, ents) ==
    LET n == Len(ents)
        payloads == [i \in 1..n |-> GenBytes(i * 16, 1, EntryPayloadLen(ents[i]))]
        records == [i \in 1..n |->
                      PackEntryFields(ents[i]) \o Ljust(ents[i].name, 48)
                          \o PackI(StoredOffset(ents, i))]
    IN  MAGIC \o PackI(6) \o PackI(64 * n) \o PackI(SumLen(payloads)) \o PackI(n)
              \o PackI(reserved[1]) \o PackI(reserved[2]) \o PackI(reserved[3])
              \o Concat(records) \o Concat(payloads)

StoredEntryLists == UNION { [1..n -> StoredEntryChoices] : n \in 0..MaxEntries }

RewriteInit ==
    /\ \E reserved \in [1..3 -> ReservedChoices], ents \in StoredEntryLists :
          file = StoredArchive(reserved, ents)
    /\ entries = <<>>
    /\ image_data = <<>>
    /\ rd = NoResult
    /\ apc = "stored"
    /\ XformIdle
    /\ ExtractIdle

(* archive = PEGImageArchive(file_path); archive.read(): entries holds     *)
(* archive.entries, rd the header fields the object keeps.                 *)
ReadStored ==
    /\ apc = "stored"
    /\ rd' = read(file)
    /\ entries' = IF rd'.ok THEN rd'.val.entries ELSE <<>>
    /\ apc' = IF rd'.ok THEN "loaded" ELSE "unreadable"
    /\ UNCHANGED <<image_data, file>>
    /\ UNCHANGED xformVars
    /\ UNCHANGED extractVars

(* archive.image_data.append(data) with the payload of the next entry,     *)
(* taken from the file at the entry's offset: read leaves image_data empty.*)
AppendData ==
    /\ apc = "loaded"
    /\ Len(image_data) < Len(entries)
    /\ LET e == entries[Len(image_data) + 1]
       IN  image_data' = Append(image_data, FileRead(file, e.offset, EntryPayloadLen(e)))
    /\ UNCHANGED <<entries, file, rd, apc>>
    /\ UNCHANGED xformVars
    /\ UNCHANGED extractVars

(* archive.write() on the object read filled: the file is opened with 'wb' *)
(* and closed by the with statement when _write_entries raises IndexError. *)
write_back ==
    /\ apc = "loaded"
    /\ LET f1 == _write_header(rd.val.version, entries, image_data)
           w2 == _write_entries(f1, entries, image_data)
       IN  /\ entries' = w2.entries
           /\ file' = IF w2.raised THEN w2.file
                      ELSE _write_image_data(w2.file, w2.entries, image_data)
           /\ apc' = IF w2.raised THEN "rewrite_failed" ELSE "rewritten"
    /\ UNCHANGED <<image_data, rd>>
    /\ UNCHANGED xformVars
    /\ UNCHANGED extractVars

RewriteNext == ReadStored \/ AppendData \/ write_back

SpecRewrite == RewriteInit /\ [][RewriteNext]_vars

(* C21: reading an archive and writing it back leaves the three reserved   *)
(* header u32 fields and every entry's flag/misc bytes (u1, anim_delay,    *)
(* mipmaps, u2) equal to the values that were read: reading the file       *)
(* written yields them again.                                              *)
C21_AsStated ==
    apc = "rewritten" =>
        LET back == read(file)
        IN  /\ back.ok
            /\ back.val.dummy = rd.val.dummy
            /\ back.val.frame_num = rd.val.frame_num
            /\ back.val.unk = rd.val.unk
            /\ Len(back.val.entries) = Len(rd.val.entries)
            /\ \A i \in 1..Len(rd.val.entries) :
                  /\ back.val.entries[i].u1 = rd.val.entries[i].u1
                  /\ back.val.entries[i].anim_delay = rd.val.entries[i].anim_delay
                  /\ back.val.entries[i].mipmaps = rd.val.entries[i].mipmaps
                  /\ back.val.entries[i].u2 = rd.val.entries[i].u2

(* The part of C21 the code keeps: the record write stores for entry i, at *)
(* byte 28 + 64*i, holds the entry's u1, anim_delay, mipmaps and u2 as     *)
(* read; bytes 20..27 of the header are zero whatever was read.            *)
C21_FlagsInRecord ==
    apc = "rewritten" =>
        /\ FileRead(file, 20, 8) = Zeros(8)
        /\ Len(entries) = Len(rd.val.entries)
        /\ \A i \in 1..Len(entries) :
              LET record == FileRead(file, 28 + (64 * (i - 1)), 12)
                  e == rd.val.entries[i]
              IN  /\ Len(record) = 12
                  /\ record[7] = e.u1
                  /\ record[9] = e.anim_delay
                  /\ record[10] = e.mipmaps
                  /\ UnpackH(SubSeq(record, 11, 12)) = e.u2

(* read leaves image_data empty: write on the object as read raises        *)
(* IndexError for every archive with an entry and leaves at most the       *)
(* header and the records of the entries that have a payload.              *)
C21_WriteNeedsPayloads ==
    /\ apc = "rewritten" => Len(image_data) = Len(entries)
    /\ apc = "rewrite_failed" =>
          /\ Len(image_data) < Len(entries)
          /\ Len(file) <= 32 + (64 * Len(image_data))

----------------------------------------------------------------------------
(* The files _extract_archive saves for the frames of a multi-frame image. *)

(* The palette and the pixel rows in the bytes of a saved colour-mapped    *)
(* file: write_to_stream puts 1024 palette bytes behind the 18-byte header.*)
SavedPalette(bytes) == PySlice(bytes, 18, 18 + (256 * 4))
SavedPixels(bytes) == PySlice(bytes, 18 + (256 * 4), Len(bytes))

(* The image decoded from entry i (1-based) of the archive.                *)
DeliveredImage(i) ==
    delivered[CHOOSE d \in 1..Len(delivered) : delivered[d].idx = i].image

(* The rows of a frame as write_to_stream stores them for a top-down       *)
(* object.                                                                 *)
StoredRows(image, data) ==
    IF image.height > 1 THEN ReverseRows(data, image.width * (image.depth \div 8), 0)
    ELSE data

(* The files saved by the frame loop for 8-bit images: frame is 1-based.   *)
FrameFiles ==
    {k \in 1..Len(out_files) :
        /\ out_files[k].frame >= 1
        /\ Delivered(out_files[k].idx)
        /\ DeliveredImage(out_files[k].idx).depth = 8}

(* C22: when a multi-frame 8-bit image is extracted, the raster file       *)
(* written for frame i contains frame i's pixel data together with frame   *)
(* i's own palette, for every i (not the palette of frame 0).              *)
C22_AsStated ==
    tool = "process_peg" =>
        \A k \in FrameFiles :
            LET image == DeliveredImage(out_files[k].idx)
                frame == image.frames[out_files[k].frame]
            IN  /\ SavedPixels(out_files[k].bytes) = StoredRows(image, frame.data)
                /\ SavedPalette(out_files[k].bytes)
                      = PySlice(Ljust(frame.palette, 256 * 4), 0, 256 * 4)

(* What the code does instead: every frame's file holds that frame's pixel *)
(* data and the palette of the first frame, with which the TGAFile object  *)
(* was constructed.                                                        *)
C22_FirstFramePalette ==
    tool = "process_peg" =>
        \A k \in FrameFiles :
            LET image == DeliveredImage(out_files[k].idx)
                frame == image.frames[out_files[k].frame]
            IN  /\ SavedPixels(out_files[k].bytes) = StoredRows(image, frame.data)
                /\ SavedPalette(out_files[k].bytes)
                      = PySlice(Ljust(image.frames[1].palette, 256 * 4), 0, 256 * 4)

(* A second frame with a palette of its own has been saved.                *)
C22_SecondFrameSaved ==
    \E k \in FrameFiles :
        LET image == DeliveredImage(out_files[k].idx)
        IN  /\ out_files[k].frame = 2
            /\ image.frames[2].palette # image.frames[1].palette

----------------------------------------------------------------------------
(* The TGAFile unpack_peg.py makes of an 8-bit image.                      *)

(* The images get_images yielded at depth 8: image_data is the decoded     *)
(* palette followed by the index bytes.                                    *)
CombinedImages ==
    {k \in 1..Len(delivered) : tool = "unpack_peg" /\ delivered[k].image.depth = 8}

(* The TGAFile main constructs for the k-th image delivered: no palette    *)
(* argument.                                                               *)
MainTga(k) ==
    LET image == delivered[k].image
    IN  TGAFile(image.width, image.height, image.depth, image.image_data, <<>>,
                256, image.palette_depth, FALSE)

(* The palette and the index bytes get_images reads for entry e lie       *)
(* inside the file.                                                        *)
CombinedInFile(e) ==
    e.offset + (IF e.subtype = 1 THEN 512 ELSE 1024) + (e.width * e.height) <= Len(file)

(* C23: when an 8-bit image is handed to TGAFile as one combined buffer    *)
(* (decoded palette followed by index bytes, no separate palette), TGAFile *)
(* splits it at 256*(palette_depth/8) bytes, so that for a 16-bit palette  *)
(* the palette is the first 512 bytes and the pixel data is exactly the    *)
(* width*height index bytes that follow.                                   *)
C23_AsStated ==
    epc # "written" =>
        \A k \in CombinedImages :
            LET image == delivered[k].image
                e == rd.val.entries[delivered[k].idx]
                cut == PALETTE_ENTRIES * (image.palette_depth \div 8)
                tga == MainTga(k)
            IN  /\ tga.palette = PySlice(image.image_data, 0, cut)
                /\ tga.image_data = PySlice(image.image_data, cut, Len(image.image_data))
                /\ CombinedInFile(e) => Len(tga.image_data) = e.width * e.height

(* What the code does instead: the buffer is split at byte 1024 whatever   *)
(* palette_depth is, which is the split claimed for 32-bit palettes only.  *)
C23_SplitAt1024 ==
    epc # "written" =>
        \A k \in CombinedImages :
            LET image == delivered[k].image
                e == rd.val.entries[delivered[k].idx]
                tga == MainTga(k)
            IN  /\ tga.palette = PySlice(image.image_data, 0, 1024)
                /\ tga.image_data = PySlice(image.image_data, 1024, Len(image.image_data))
                /\ (CombinedInFile(e) /\ image.palette_depth = 32) =>
                      Len(tga.image_data) = e.width * e.height
                /\ (CombinedInFile(e) /\ image.palette_depth = 16
                        /\ e.width * e.height <= 512) =>
                      /\ tga.image_data = <<>>
                      /\ tga.palette = image.image_data

(* An image with a 16-bit palette has been handed to TGAFile.              *)
C23_Palette16Seen ==
    \E k \in CombinedImages : delivered[k].image.palette_depth = 16

====
